---- MODULE Spec2Model ----
(***************************************************************************)
(* SymbolEmbeddingMap (automata/tools/search/symbol_rank/                  *)
(* symbol_embedding_map.py): one instance, its embedding map (an           *)
(* insertion-ordered dict), the index projections written by               *)
(* generate_similarity_matrix, the files written by save and read by load, *)
(* and the holder of the dict that load mode adopts.  The two tools of the *)
(* PythonWriterToolBuilder (spork/tools/python_tools/                      *)
(* python_writer_tool_builder.py) are modelled beside it.                  *)
(*                                                                         *)
(* The collaborators are inputs of each call: the SymbolConverter is a     *)
(* function from the symbols of the call to a source text or to a raise,   *)
(* the embedding provider returns Embed(text) or raises at chosen          *)
(* positions of the list.  Every call of a collaborator is appended to     *)
(* the call log kept in `last`, together with the state before the call.   *)
(* `last` is the record of the call that has just returned; it is dropped  *)
(* (Return) when control is back at the caller, before the next call.      *)
(***************************************************************************)
EXTENDS Integers, Sequences, FiniteSets, TLC

VARIABLES
    constructed,      \* an instance exists (__init__ returned)
    attrs,            \* the attributes set on the instance
    embedding_map,    \* self.embedding_map: sequence of [key, value] in insertion order
    index_to_symbol,  \* self.index_to_symbol: 0..n-1 -> symbol
    symbol_to_index,  \* self.symbol_to_index: symbol -> 0..n-1
    files,            \* the file system: path -> [exists, content]
    mapping_from,     \* who created the dict self.embedding_map refers to
    last              \* the last operation: its arguments, pre-state, call log, outcome

vars == <<constructed, attrs, embedding_map, index_to_symbol, symbol_to_index, files, mapping_from, last>>

---------------------------------------------------------------------------
(* Bounds *)

MaxListLen == 2       \* longest candidate list, and longest update list of Spec
MaxLoadLen == 1       \* longest caller-supplied mapping in load mode
MaxShortLen == 1      \* longest update list of SpecMatrix and SpecPersist
MaxBuildLen == 3      \* longest candidate list of SpecBuild
MaxInputLen == 4      \* longest input string of the writer tool

---------------------------------------------------------------------------
(* Symbols, texts, vectors *)

\* Symbols are identified by their uri.
CorePool == {"a#", "latest#", "f(x)"}

MatrixPool == {"a#", "b().", "m/", "latest#"}

FilterPool ==
    {"a#", "b().", "m/", "__init__/", "setup/", "local1", "latest#",
     "v.", "m:", "k!", "f(x)", "T[t]"}

BuildPool == {"a#", "b().", "m/", "latest#"}

LoadPool == {"a#", "b()."}

Texts == {"t1", "t2"}

Unresolvable == "<raise>"

Vectors == {<<1, 0>>, <<1, 1>>, <<0, 1>>}

NoVector == <<>>

Paths == {"p1"}

---------------------------------------------------------------------------
(* Strings *)

Contains(s, pat) ==
    \E i \in 1..(Len(s) - Len(pat) + 1) : SubSeq(s, i, i + Len(pat) - 1) = pat

EndsWith(s, suf) ==
    /\ Len(s) >= Len(suf)
    /\ SubSeq(s, Len(s) - Len(suf) + 1, Len(s)) = suf

StartsWith(s, pre) ==
    /\ Len(s) >= Len(pre)
    /\ SubSeq(s, 1, Len(pre)) = pre

\* Symbol.symbol_kind_by_suffix: the kind named by the uri's trailing marker.
SymbolKindBySuffix(uri) ==
    IF StartsWith(uri, "local") THEN "Local"
    ELSE IF EndsWith(uri, "/") THEN "Module"
    ELSE IF EndsWith(uri, "#") THEN "Class"
    ELSE IF EndsWith(uri, ").") THEN "Method"
    ELSE IF EndsWith(uri, ")") THEN "Parameter"
    ELSE IF EndsWith(uri, "]") THEN "TypeParameter"
    ELSE IF EndsWith(uri, ".") THEN "Value"
    ELSE IF EndsWith(uri, ":") THEN "Meta"
    ELSE IF EndsWith(uri, "!") THEN "Macro"
    ELSE "Unknown"

---------------------------------------------------------------------------
(* The insertion-ordered dict *)

Range(seq) == {seq[i] : i \in 1..Len(seq)}

Keys(d) == [i \in 1..Len(d) |-> d[i].key]

KeySet(d) == {d[i].key : i \in 1..Len(d)}

HasKey(d, k) == \E i \in 1..Len(d) : d[i].key = k

IndexOf(d, k) == CHOOSE i \in 1..Len(d) : d[i].key = k

DictGet(d, k) == d[IndexOf(d, k)].value

\* Variant: assigning an existing key moves it behind the other keys.
DictSetMovesToEnd(d, k, v) ==
    Append(SelectSeq(d, LAMBDA e : e.key # k), [key |-> k, value |-> v])

\* d[k] = v: an existing key keeps its position, a new key goes last.
DictSet(d, k, v) ==
    IF HasKey(d, k)
    THEN [d EXCEPT ![IndexOf(d, k)] = [key |-> k, value |-> v]]
    ELSE Append(d, [key |-> k, value |-> v])

SymbolEmbedding(symbol, vector, source_code) ==
    [symbol |-> symbol, vector |-> vector, source_code |-> source_code]

---------------------------------------------------------------------------
(* The collaborators *)

\* openai get_embedding: a function of the text.
Embed(text) == IF text = "t1" THEN <<1, 0>> ELSE <<1, 1>>

ConvertCall(k, symbol, conv) ==
    [fn |-> "convert", pos |-> k, arg |-> symbol,
     ok |-> conv[symbol] # Unresolvable, text |-> conv[symbol], vector |-> NoVector]

EmbedCall(k, text, fails) ==
    [fn |-> "get_embedding", pos |-> k, arg |-> text,
     ok |-> k \notin fails, text |-> text,
     vector |-> IF k \in fails THEN NoVector ELSE Embed(text)]

---------------------------------------------------------------------------
(* _filter_symbols *)

ExcludedKinds == {"Local", "Value", "Meta", "Macro", "Parameter", "TypeParameter"}

\* Variant: the "test" substring is not looked for.
ExcludedNoTest(symbol) ==
    \/ Contains(symbol, "__init__")
    \/ Contains(symbol, "setup")
    \/ Contains(symbol, "local")
    \/ SymbolKindBySuffix(symbol) \in ExcludedKinds

\* The `continue` conditions of the filter loop.
Excluded(symbol) ==
    \/ Contains(symbol, "__init__")
    \/ Contains(symbol, "setup")
    \/ Contains(symbol, "local")
    \/ Contains(symbol, "test")
    \/ SymbolKindBySuffix(symbol) \in ExcludedKinds

RECURSIVE FilterLoop(_, _, _)
FilterLoop(filtered_symbols, symbols, k) ==
    IF k > Len(symbols) THEN filtered_symbols
    ELSE FilterLoop(IF Excluded(symbols[k]) THEN filtered_symbols
                    ELSE Append(filtered_symbols, symbols[k]),
                    symbols, k + 1)

FilterSymbols(symbols) == FilterLoop(<<>>, symbols, 1)

---------------------------------------------------------------------------
(* The per-symbol loops.  st = [map, calls, logged]: the map being written, *)
(* the collaborator calls made so far, the symbols logged by logger.error.  *)

LoopStart(map) == [map |-> map, calls |-> <<>>, logged |-> <<>>]

\* Variant: the stored source text is not compared, every symbol is embedded again.
NeedsEmbeddingAlways(map, symbol, symbol_source) == TRUE

\* Variant: only symbols new to the map are embedded, a changed source is missed.
NeedsEmbeddingNewOnly(map, symbol, symbol_source) == ~HasKey(map, symbol)

\* The condition under which update_embeddings requests a new vector.
NeedsEmbedding(map, symbol, symbol_source) ==
    \/ ~HasKey(map, symbol)
    \/ DictGet(map, symbol).source_code # symbol_source

\* Variant: a symbol already in the map gets the fresh text stored beside
\* the vector it had, without a call of the provider.
UpdateOneKeepsVector(st, has_map, k, symbol, conv, fails) ==
    LET c1 == Append(st.calls, ConvertCall(k, symbol, conv))
        failed(calls) ==
            [st EXCEPT !.calls = calls, !.logged = Append(st.logged, symbol)]
    IN  IF conv[symbol] = Unresolvable THEN failed(c1)
        ELSE IF ~has_map THEN failed(c1)
        ELSE LET symbol_source == conv[symbol]
                 c2 == Append(c1, EmbedCall(k, symbol_source, fails))
             IN  IF HasKey(st.map, symbol)
                 THEN [st EXCEPT
                         !.calls = c1,
                         !.map = DictSet(st.map, symbol,
                                   SymbolEmbedding(symbol, DictGet(st.map, symbol).vector,
                                                   symbol_source))]
                 ELSE IF k \in fails THEN failed(c2)
                 ELSE [st EXCEPT
                         !.calls = c2,
                         !.map = DictSet(st.map, symbol,
                                   SymbolEmbedding(symbol, Embed(symbol_source),
                                                   symbol_source))]

\* One iteration of the loop of update_embeddings, on symbols_to_update[k].
\* has_map: self.embedding_map exists (its absence raises inside the try).
UpdateOne(st, has_map, k, symbol, conv, fails) ==
    LET c1 == Append(st.calls, ConvertCall(k, symbol, conv))
        failed(calls) ==
            [st EXCEPT !.calls = calls, !.logged = Append(st.logged, symbol)]
    IN  IF conv[symbol] = Unresolvable THEN failed(c1)
        ELSE IF ~has_map THEN failed(c1)
        ELSE LET symbol_source == conv[symbol]
                 c2 == Append(c1, EmbedCall(k, symbol_source, fails))
             IN  IF NeedsEmbedding(st.map, symbol, symbol_source)
                 THEN IF k \in fails THEN failed(c2)
                      ELSE [st EXCEPT
                              !.calls = c2,
                              !.map = DictSet(st.map, symbol,
                                        SymbolEmbedding(symbol, Embed(symbol_source),
                                                        symbol_source))]
                 ELSE [st EXCEPT !.calls = c1]

\* Variant: the try encloses the loop, the first failure ends the batch.
RECURSIVE UpdateLoopTryOutside(_, _, _, _, _, _)
UpdateLoopTryOutside(st, has_map, symbols, k, conv, fails) ==
    IF k > Len(symbols) \/ st.logged # <<>> THEN st
    ELSE UpdateLoopTryOutside(UpdateOne(st, has_map, k, symbols[k], conv, fails),
                              has_map, symbols, k + 1, conv, fails)

\* Variant: the update list is filtered like the candidates of a build.
RECURSIVE UpdateLoopFiltered(_, _, _, _, _, _)
UpdateLoopFiltered(st, has_map, symbols, k, conv, fails) ==
    IF k > Len(symbols) THEN st
    ELSE UpdateLoopFiltered(IF Excluded(symbols[k]) THEN st
                            ELSE UpdateOne(st, has_map, k, symbols[k], conv, fails),
                            has_map, symbols, k + 1, conv, fails)

RECURSIVE UpdateLoop(_, _, _, _, _, _)
UpdateLoop(st, has_map, symbols, k, conv, fails) ==
    IF k > Len(symbols) THEN st
    ELSE UpdateLoop(UpdateOne(st, has_map, k, symbols[k], conv, fails),
                    has_map, symbols, k + 1, conv, fails)

\* One iteration of the loop of _build_embedding_map, on filtered_symbols[k].
BuildOne(st, k, symbol, conv, fails) ==
    LET c1 == Append(st.calls, ConvertCall(k, symbol, conv))
        failed(calls) ==
            [st EXCEPT !.calls = calls, !.logged = Append(st.logged, symbol)]
    IN  IF conv[symbol] = Unresolvable THEN failed(c1)
        ELSE LET symbol_source == conv[symbol]
                 c2 == Append(c1, EmbedCall(k, symbol_source, fails))
             IN  IF k \in fails THEN failed(c2)
                 ELSE [st EXCEPT
                         !.calls = c2,
                         !.map = DictSet(st.map, symbol,
                                   SymbolEmbedding(symbol, Embed(symbol_source),
                                                   symbol_source))]

\* Variant: the try encloses the loop, the first failure ends the build.
RECURSIVE BuildLoopTryOutside(_, _, _, _, _)
BuildLoopTryOutside(st, symbols, k, conv, fails) ==
    IF k > Len(symbols) \/ st.logged # <<>> THEN st
    ELSE BuildLoopTryOutside(BuildOne(st, k, symbols[k], conv, fails),
                             symbols, k + 1, conv, fails)

RECURSIVE BuildLoop(_, _, _, _, _)
BuildLoop(st, symbols, k, conv, fails) ==
    IF k > Len(symbols) THEN st
    ELSE BuildLoop(BuildOne(st, k, symbols[k], conv, fails),
                   symbols, k + 1, conv, fails)

BuildEmbeddingMap(defined_symbols, conv, fails) ==
    BuildLoop(LoopStart(<<>>), FilterSymbols(defined_symbols), 1, conv, fails)

---------------------------------------------------------------------------
(* calculate_similarity_matrix *)

Dot(a, b) == a[1] * b[1] + a[2] * b[2]

RECURSIVE Gcd(_, _)
Gcd(x, y) == IF y = 0 THEN x ELSE Gcd(y, x % y)

\* openai cosine_similarity(a, b) = dot(a, b) / (norm(a) * norm(b)), kept exactly
\* as the reduced fraction <<n, d>> of its signed square: sign(dot) * dot^2 / (|a|^2 |b|^2).
CosineSimilarity(a, b) ==
    LET dot == Dot(a, b)
        num == dot * dot
        den == Dot(a, a) * Dot(b, b)
        g   == Gcd(den, num)
    IN  <<(IF dot < 0 THEN -1 ELSE 1) * (num \div g), den \div g>>

\* The float 0.0 the matrix is initialised with.
Zero == <<0, 1>>

\* Variant: the lower triangle is not written.
SimilarityStepNoMirror(st, embeddings, i, j) ==
    IF i >= j THEN st
    ELSE LET similarity == CosineSimilarity(embeddings[i + 1], embeddings[j + 1])
         IN  [results |-> [st.results EXCEPT ![i][j] = similarity],
              sim_calls |-> Append(st.sim_calls,
                                   [i |-> i, j |-> j,
                                    a |-> embeddings[i + 1], b |-> embeddings[j + 1]])]

\* Variant: only the diagonal is skipped, both triangles are computed.
SimilarityStepBothTriangles(st, embeddings, i, j) ==
    IF i = j THEN st
    ELSE LET similarity == CosineSimilarity(embeddings[i + 1], embeddings[j + 1])
             r1 == [st.results EXCEPT ![i][j] = similarity]
             r2 == [r1 EXCEPT ![j][i] = r1[i][j]]
         IN  [results |-> r2,
              sim_calls |-> Append(st.sim_calls,
                                   [i |-> i, j |-> j,
                                    a |-> embeddings[i + 1], b |-> embeddings[j + 1]])]

\* One pass of the inner loop body, for the index pair (i, j).
\* st = [results, sim_calls]; embeddings is the 1-based list of vectors.
SimilarityStep(st, embeddings, i, j) ==
    IF i >= j THEN st
    ELSE LET similarity == CosineSimilarity(embeddings[i + 1], embeddings[j + 1])
             r1 == [st.results EXCEPT ![i][j] = similarity]
             r2 == [r1 EXCEPT ![j][i] = r1[i][j]]
         IN  [results |-> r2,
              sim_calls |-> Append(st.sim_calls,
                                   [i |-> i, j |-> j,
                                    a |-> embeddings[i + 1], b |-> embeddings[j + 1]])]

\* The two nested loops, in row-major order: p = i * n + j.
RECURSIVE SimilarityLoop(_, _, _)
SimilarityLoop(st, embeddings, p) ==
    LET n == Len(embeddings)
    IN  IF p >= n * n THEN st
        ELSE SimilarityLoop(SimilarityStep(st, embeddings, p \div n, p % n),
                            embeddings, p + 1)

CalculateSimilarityMatrix(embeddings) ==
    LET n == Len(embeddings)
    IN  SimilarityLoop([results |-> [i \in 0..(n - 1) |-> [j \in 0..(n - 1) |-> Zero]],
                        sim_calls |-> <<>>],
                       embeddings, 0)

---------------------------------------------------------------------------
(* save: the serialized document *)

EmptyContent == [kind |-> "empty", doc |-> <<>>]

ForeignContent == [kind |-> "foreign", doc |-> <<>>]

NoFile == [exists |-> FALSE, content |-> EmptyContent]

\* The string a Symbol key takes in the document, and Symbol.from_string,
\* which parses it back: the string identity form wraps the uri.
SymbolToString(symbol) == "Symbol(" \o symbol \o ")"

InvalidSymbol == "<invalid>"

SymbolFromString(symbol_str) ==
    IF StartsWith(symbol_str, "Symbol(") /\ EndsWith(symbol_str, ")")
                                         /\ Len(symbol_str) > 8
    THEN SubSeq(symbol_str, 8, Len(symbol_str) - 1)
    ELSE InvalidSymbol

\* jsonpickle's flattening of a SymbolEmbedding, and its restoring.
Flatten(value) ==
    [py_object |-> "SymbolEmbedding",
     symbol |-> [py_object |-> "Symbol", uri |-> value.symbol],
     vector |-> value.vector,
     source_code |-> value.source_code]

Restore(object) ==
    SymbolEmbedding(object.symbol.uri, object.vector, object.source_code)

\* jsonpickle.encode(self.embedding_map): a JSON object with one member per
\* entry, in order; a key that is not a string is written as its string form.
RECURSIVE EncodeLoop(_, _, _)
EncodeLoop(data, d, i) ==
    IF i > Len(d) THEN data
    ELSE EncodeLoop(DictSet(data, SymbolToString(d[i].key), Flatten(d[i].value)),
                    d, i + 1)

Encode(d) == [kind |-> "json", doc |-> EncodeLoop(<<>>, d, 1)]

\* jsonpickle.decode(f.read()): the string-keyed dict of restored values.
Decode(content) ==
    [i \in 1..Len(content.doc) |->
       [key |-> content.doc[i].key, value |-> Restore(content.doc[i].value)]]

\* A document whose key is a bare uri, not the string form of a Symbol.
BadKeyContent ==
    [kind |-> "json",
     doc |-> <<[key |-> "a#", value |-> Flatten(SymbolEmbedding("a#", <<1, 0>>, "t1"))]>>]

---------------------------------------------------------------------------
(* Inputs *)

ListsOver(pool, n) == UNION {[1..m -> pool] : m \in 0..n}

ConverterOutcomes == Texts \cup {Unresolvable}

\* The provider is only ever asked about a text the converter has returned.
ResolvedPositions(symbols, conv) ==
    {k \in 1..Len(symbols) : conv[symbols[k]] # Unresolvable}

KwargNames == {"symbol_converter", "all_defined_symbols", "embedding_map"}

\* The mappings a caller hands to load mode: Dict[Symbol, SymbolEmbedding],
\* with any vector and any source text for a key.
LoadEntries(pool) ==
    {[key |-> k, value |-> SymbolEmbedding(k, v, t)] :
        k \in pool \cap LoadPool, v \in Vectors, t \in Texts}

LoadMaps(pool) ==
    {d \in ListsOver(LoadEntries(pool), MaxLoadLen) :
        \A i, j \in 1..Len(d) : d[i].key = d[j].key => i = j}

---------------------------------------------------------------------------
(* The record of the last operation *)

\* What a factory hands back: an instance with its map, or nothing.
NoInstance == [instance |-> FALSE, map |-> <<>>]

NoOp ==
    [op |-> "none", raised |-> "none", symbols |-> <<>>,
     build |-> FALSE, load |-> FALSE, kwargs |-> {},
     pre_attrs |-> {}, pre_map |-> <<>>,
     calls |-> <<>>, logged |-> <<>>,
     sim_calls |-> <<>>, matrix |-> <<>>,
     path |-> "", pre_file |-> NoFile,
     decoded |-> FALSE, returned |-> NoInstance,
     input |-> "", writer_calls |-> <<>>, result |-> ""]

---------------------------------------------------------------------------
(* __init__ *)

InitFailure(e) ==
    [raised |-> e, attrs |-> {}, mapping_from |-> "nobody", loop |-> LoopStart(<<>>)]

\* Variant: the two flags are not tested together, build mode wins.
InitResultBuildWins(build_new_embedding_map, load_embedding_map, kwargs, all_defined_symbols, conv, fails, supplied_map) ==
    IF build_new_embedding_map
    THEN IF "symbol_converter" \notin kwargs
         THEN InitFailure("ValueError: Missing required argument: symbol_converter")
         ELSE IF "all_defined_symbols" \notin kwargs
         THEN InitFailure("ValueError: Missing required argument: all_defined_symbols")
         ELSE [raised |-> "none", attrs |-> {"embedding_map"},
               mapping_from |-> "build",
               loop |-> BuildEmbeddingMap(all_defined_symbols, conv, fails)]
    ELSE IF load_embedding_map
    THEN IF "embedding_map" \notin kwargs
         THEN InitFailure("ValueError: Missing required argument: embedding_map")
         ELSE [raised |-> "none", attrs |-> {"embedding_map"},
               mapping_from |-> "caller", loop |-> LoopStart(supplied_map)]
    ELSE [raised |-> "none", attrs |-> {}, mapping_from |-> "nobody",
          loop |-> LoopStart(<<>>)]

\* Variant: load mode does not catch the KeyError of the missing keyword.
InitResultKeyErrorEscapes(build_new_embedding_map, load_embedding_map, kwargs, all_defined_symbols, conv, fails, supplied_map) ==
    IF build_new_embedding_map /\ load_embedding_map
    THEN InitFailure("ValueError: Cannot specify both")
    ELSE IF build_new_embedding_map
    THEN IF "symbol_converter" \notin kwargs
         THEN InitFailure("ValueError: Missing required argument: symbol_converter")
         ELSE IF "all_defined_symbols" \notin kwargs
         THEN InitFailure("ValueError: Missing required argument: all_defined_symbols")
         ELSE [raised |-> "none", attrs |-> {"embedding_map"},
               mapping_from |-> "build",
               loop |-> BuildEmbeddingMap(all_defined_symbols, conv, fails)]
    ELSE IF load_embedding_map
    THEN IF "embedding_map" \notin kwargs
         THEN InitFailure("KeyError: embedding_map")
         ELSE [raised |-> "none", attrs |-> {"embedding_map"},
               mapping_from |-> "caller", loop |-> LoopStart(supplied_map)]
    ELSE [raised |-> "none", attrs |-> {}, mapping_from |-> "nobody",
          loop |-> LoopStart(<<>>)]

\* The outcome of __init__: the error raised ("none": the instance exists),
\* the attributes set, the map, and the collaborator calls of the build.
InitResult(build_new_embedding_map, load_embedding_map, kwargs, all_defined_symbols, conv, fails, supplied_map) ==
    LET error(e) == InitFailure(e)
    IN  IF build_new_embedding_map /\ load_embedding_map
        THEN error("ValueError: Cannot specify both")
        ELSE IF build_new_embedding_map
        THEN IF "symbol_converter" \notin kwargs
             THEN error("ValueError: Missing required argument: symbol_converter")
             ELSE IF "all_defined_symbols" \notin kwargs
             THEN error("ValueError: Missing required argument: all_defined_symbols")
             ELSE [raised |-> "none", attrs |-> {"embedding_map"},
                   mapping_from |-> "build",
                   loop |-> BuildEmbeddingMap(all_defined_symbols, conv, fails)]
        ELSE IF load_embedding_map
        THEN IF "embedding_map" \notin kwargs
             THEN error("ValueError: Missing required argument: embedding_map")
             ELSE \* the caller's dict itself becomes self.embedding_map
                  [raised |-> "none", attrs |-> {"embedding_map"},
                   mapping_from |-> "caller",
                   loop |-> LoopStart(supplied_map)]
        ELSE [raised |-> "none", attrs |-> {}, mapping_from |-> "nobody",
              loop |-> LoopStart(<<>>)]

Construct(pool, maxlen) ==
    /\ last.op = "none"
    /\ ~constructed
    /\ \E build \in BOOLEAN, load \in BOOLEAN, kwargs \in SUBSET KwargNames :
         \* the caller's arguments: a candidate list and a converter whenever
         \* build mode is asked for with both, whatever the other flag says
         LET builds == build
                       /\ {"symbol_converter", "all_defined_symbols"} \subseteq kwargs
             loads  == load /\ ~build /\ "embedding_map" \in kwargs
         IN  \E symbols \in (IF builds THEN ListsOver(pool, maxlen) ELSE {<<>>}),
                supplied \in (IF loads THEN LoadMaps(pool) ELSE {<<>>}) :
               \E conv \in [Range(symbols) -> ConverterOutcomes] :
               \E fails \in SUBSET ResolvedPositions(symbols, conv) :
                 LET r == InitResult(build, load, kwargs, symbols, conv, fails, supplied)
                 IN  /\ constructed' = (r.raised = "none")
                     /\ attrs' = r.attrs
                     /\ embedding_map' = r.loop.map
                     /\ mapping_from' = r.mapping_from
                     /\ last' = [NoOp EXCEPT
                                   !.op = "init", !.raised = r.raised,
                                   !.symbols = symbols,
                                   !.build = build, !.load = load, !.kwargs = kwargs,
                                   !.calls = r.loop.calls, !.logged = r.loop.logged]
                     /\ UNCHANGED <<index_to_symbol, symbol_to_index, files>>

---------------------------------------------------------------------------
(* update_embeddings *)

UpdateEmbeddings(pool, maxlen) ==
    /\ last.op = "none"
    /\ constructed
    /\ \E symbols \in ListsOver(pool, maxlen) :
         \E conv \in [Range(symbols) -> ConverterOutcomes] :
         \E fails \in SUBSET ResolvedPositions(symbols, conv) :
           LET r == UpdateLoop(LoopStart(embedding_map), "embedding_map" \in attrs,
                               symbols, 1, conv, fails)
           IN  /\ embedding_map' = r.map
               /\ last' = [NoOp EXCEPT
                             !.op = "update_embeddings", !.symbols = symbols,
                             !.pre_attrs = attrs, !.pre_map = embedding_map,
                             !.calls = r.calls, !.logged = r.logged]
               /\ UNCHANGED <<constructed, attrs, index_to_symbol, symbol_to_index, files, mapping_from>>

\* The caller that handed its dict to load mode still holds it, and
\* self.embedding_map is that dict: a second instance constructed in load mode
\* from the same dict runs its update_embeddings on it.
UpdateEmbeddingsOfSecond(pool, maxlen) ==
    /\ last.op = "none"
    /\ constructed
    /\ mapping_from = "caller"
    /\ \E symbols \in ListsOver(pool, maxlen) :
         \E conv \in [Range(symbols) -> ConverterOutcomes] :
         \E fails \in SUBSET ResolvedPositions(symbols, conv) :
           LET r == UpdateLoop(LoopStart(embedding_map), TRUE, symbols, 1, conv, fails)
           IN  /\ embedding_map' = r.map
               /\ last' = [NoOp EXCEPT
                             !.op = "second.update_embeddings", !.symbols = symbols,
                             !.pre_attrs = attrs, !.pre_map = embedding_map,
                             !.calls = r.calls, !.logged = r.logged]
               /\ UNCHANGED <<constructed, attrs, index_to_symbol, symbol_to_index, files, mapping_from>>

\* The caller assigns an entry of the dict it handed to load mode.
CallerWrites(pool) ==
    /\ last.op = "none"
    /\ constructed
    /\ mapping_from = "caller"
    /\ \E e \in LoadEntries(pool) :
         /\ embedding_map' = DictSet(embedding_map, e.key, e.value)
         /\ last' = [NoOp EXCEPT
                       !.op = "caller.setitem", !.symbols = <<e.key>>,
                       !.pre_attrs = attrs, !.pre_map = embedding_map]
         /\ UNCHANGED <<constructed, attrs, index_to_symbol, symbol_to_index, files, mapping_from>>

---------------------------------------------------------------------------
(* generate_similarity_matrix *)

\* {i: symbol for i, symbol in enumerate(symbols)}
IndexToSymbol(symbols) == [i \in 0..(Len(symbols) - 1) |-> symbols[i + 1]]

\* Variant: the reverse mapping counts from one.
SymbolToIndexFromOne(symbols) ==
    [s \in Range(symbols) |-> CHOOSE i \in 1..Len(symbols) : symbols[i] = s]

\* {symbol: i for i, symbol in enumerate(symbols)}: a later occurrence wins.
SymbolToIndex(symbols) ==
    [s \in Range(symbols) |->
       (CHOOSE i \in 1..Len(symbols) :
          /\ symbols[i] = s
          /\ \A j \in (i + 1)..Len(symbols) : symbols[j] # s) - 1]

GenerateSimilarityMatrix ==
    /\ last.op = "none"
    /\ constructed
    /\ IF "embedding_map" \notin attrs
       THEN /\ last' = [NoOp EXCEPT
                          !.op = "generate_similarity_matrix",
                          !.raised = "AttributeError",
                          !.pre_attrs = attrs, !.pre_map = embedding_map]
            /\ UNCHANGED <<constructed, attrs, embedding_map, index_to_symbol,
                           symbol_to_index, files, mapping_from>>
       ELSE LET symbols == Keys(embedding_map)
                embeddings == [i \in 1..Len(embedding_map) |->
                                 embedding_map[i].value.vector]
                r == CalculateSimilarityMatrix(embeddings)
            IN  /\ index_to_symbol' = IndexToSymbol(symbols)
                /\ symbol_to_index' = SymbolToIndex(symbols)
                /\ attrs' = attrs \cup {"index_to_symbol", "symbol_to_index"}
                /\ last' = [NoOp EXCEPT
                              !.op = "generate_similarity_matrix",
                              !.pre_attrs = attrs, !.pre_map = embedding_map,
                              !.sim_calls = r.sim_calls, !.matrix = r.results]
                /\ UNCHANGED <<constructed, embedding_map, files, mapping_from>>

---------------------------------------------------------------------------
(* save *)

\* Variant: the path is not tested, an existing file is overwritten.
SaveResultOverwrite(file, has_map, map) ==
    IF ~has_map
    THEN [raised |-> "AttributeError",
          file |-> [exists |-> TRUE, content |-> EmptyContent]]
    ELSE [raised |-> "none",
          file |-> [exists |-> TRUE, content |-> Encode(map)]]

\* The outcome of save on the file at the path: the error raised and the file left.
SaveResult(file, has_map, map) ==
    IF file.exists
    THEN [raised |-> "ValueError: file exists", file |-> file]
    ELSE IF ~has_map
    THEN \* open(path, "w") has created the file when the attribute is read
         [raised |-> "AttributeError",
          file |-> [exists |-> TRUE, content |-> EmptyContent]]
    ELSE [raised |-> "none",
          file |-> [exists |-> TRUE, content |-> Encode(map)]]

Save ==
    /\ last.op = "none"
    /\ constructed
    /\ \E path \in Paths :
         LET r == SaveResult(files[path], "embedding_map" \in attrs, embedding_map)
         IN  /\ files' = [files EXCEPT ![path] = r.file]
             /\ last' = [NoOp EXCEPT
                           !.op = "save", !.raised = r.raised,
                           !.path = path, !.pre_file = files[path],
                           !.pre_attrs = attrs, !.pre_map = embedding_map]
             /\ UNCHANGED <<constructed, attrs, embedding_map, index_to_symbol,
                            symbol_to_index, mapping_from>>

---------------------------------------------------------------------------
(* load *)

\* Variant: the decoded dict is used as it is, its keys stay strings.
RECURSIVE SymbolKeysNotParsed(_, _, _)
SymbolKeysNotParsed(embedding_map_, str_keys, i) ==
    IF i > Len(str_keys) THEN embedding_map_
    ELSE SymbolKeysNotParsed(DictSet(embedding_map_, str_keys[i].key, str_keys[i].value),
                             str_keys, i + 1)

\* {Symbol.from_string(key): value for key, value in embedding_map_str_keys.items()}
RECURSIVE SymbolKeys(_, _, _)
SymbolKeys(embedding_map_, str_keys, i) ==
    IF i > Len(str_keys) THEN embedding_map_
    ELSE SymbolKeys(DictSet(embedding_map_, SymbolFromString(str_keys[i].key),
                            str_keys[i].value),
                    str_keys, i + 1)

LoadFailure(e, decoded) == [raised |-> e, decoded |-> decoded, returned |-> NoInstance]

\* Variant: a missing file is read as an empty document.
LoadResultMissingIsEmpty(file) ==
    IF ~file.exists \/ file.content.kind # "json"
    THEN [raised |-> "none", decoded |-> file.exists,
          returned |-> [instance |-> TRUE, map |-> <<>>]]
    ELSE LET embedding_map_ == SymbolKeys(<<>>, Decode(file.content), 1)
         IN  [raised |-> "none", decoded |-> TRUE,
              returned |-> [instance |-> TRUE, map |-> embedding_map_]]

\* The outcome of load on the file at the path: the error raised, whether the
\* text was handed to jsonpickle.decode, and the instance returned.
LoadResult(file) ==
    IF ~file.exists THEN LoadFailure("ValueError: no file", FALSE)
    ELSE IF file.content.kind # "json" THEN LoadFailure("DecodeError", TRUE)
    ELSE LET str_keys == Decode(file.content)
         IN  IF \E i \in 1..Len(str_keys) :
                    SymbolFromString(str_keys[i].key) = InvalidSymbol
             THEN LoadFailure("ValueError: invalid symbol", TRUE)
             ELSE LET embedding_map_ == SymbolKeys(<<>>, str_keys, 1)
                      r == InitResult(FALSE, TRUE, {"embedding_map"}, <<>>, <<>>, {},
                                      embedding_map_)
                  IN  [raised |-> r.raised, decoded |-> TRUE,
                       returned |-> [instance |-> r.raised = "none",
                                     map |-> r.loop.map]]

\* The class method: it needs no instance.  The caller that holds no instance
\* yet keeps the one returned; its dict was created by load itself.
Load ==
    /\ last.op = "none"
    /\ \E path \in Paths :
         LET r == LoadResult(files[path])
             kept == ~constructed /\ r.returned.instance
         IN  /\ constructed' = (constructed \/ r.returned.instance)
             /\ attrs' = IF kept THEN {"embedding_map"} ELSE attrs
             /\ embedding_map' = IF kept THEN r.returned.map ELSE embedding_map
             /\ mapping_from' = IF kept THEN "load" ELSE mapping_from
             /\ last' = [NoOp EXCEPT
                           !.op = "load", !.raised = r.raised,
                           !.path = path, !.pre_file = files[path],
                           !.pre_attrs = attrs, !.pre_map = embedding_map,
                           !.decoded = r.decoded, !.returned = r.returned]
             /\ UNCHANGED <<index_to_symbol, symbol_to_index, files>>

---------------------------------------------------------------------------
(* PythonWriterToolBuilder: the two tools and python_writer_wrapper.  The     *)
(* PythonWriter is a collaborator; its calls are logged in writer_calls.      *)

\* The characters of the input strings: a letter, the separator, whitespace.
Alphabet == {"a", ",", " ", "\n"}

Whitespace == {" ", "\n"}

RECURSIVE StringsOfLen(_)
StringsOfLen(n) ==
    IF n = 0 THEN {""} ELSE {s \o c : s \in StringsOfLen(n - 1), c \in Alphabet}

InputStrings == UNION {StringsOfLen(n) : n \in 0..MaxInputLen}

\* s.find(c), from position i on, 1-based; 0 when c does not occur.
RECURSIVE Find(_, _, _)
Find(s, c, i) ==
    IF i > Len(s) THEN 0
    ELSE IF SubSeq(s, i, i) = c THEN i
    ELSE Find(s, c, i + 1)

\* s.split(sep): the pieces between all the separators, at least one piece.
RECURSIVE Split(_, _)
Split(s, sep) ==
    LET i == Find(s, sep, 1)
    IN  IF i = 0 THEN <<s>>
        ELSE <<SubSeq(s, 1, i - 1)>> \o Split(SubSeq(s, i + 1, Len(s)), sep)

\* sep.join(parts)
RECURSIVE Join(_, _)
Join(sep, parts) ==
    IF Len(parts) = 0 THEN ""
    ELSE IF Len(parts) = 1 THEN parts[1]
    ELSE parts[1] \o sep \o Join(sep, Tail(parts))

\* s.strip(): whitespace is removed at both ends.
RECURSIVE Strip(_)
Strip(s) ==
    IF Len(s) = 0 THEN s
    ELSE IF SubSeq(s, 1, 1) \in Whitespace THEN Strip(SubSeq(s, 2, Len(s)))
    ELSE IF SubSeq(s, Len(s), Len(s)) \in Whitespace THEN Strip(SubSeq(s, 1, Len(s) - 1))
    ELSE s

\* Variant: the pieces after the first are not joined again, the code is the
\* second piece alone.
PythonWriterWrapperSecondPiece(input_str) ==
    LET parts == Split(input_str, ",")
        path == parts[1]
        code == Strip(IF Len(parts) > 1 THEN parts[2] ELSE "")
    IN  [writer_calls |-> <<[fn |-> "modify_code_state", args |-> <<path, code>>]>>,
         result |-> "Success"]

\* python_writer_wrapper: the calls made on the writer and the value returned.
PythonWriterWrapper(input_str) ==
    LET path == Split(input_str, ",")[1]
        code == Strip(Join(",", Tail(Split(input_str, ","))))
    IN  [writer_calls |-> <<[fn |-> "modify_code_state", args |-> <<path, code>>]>>,
         result |-> "Success"]

\* tools[0].func: python-writer-modify-code-state
ModifyCodeStateTool ==
    /\ last.op = "none"
    /\ \E python_path_comma_code_str \in InputStrings :
         LET r == PythonWriterWrapper(python_path_comma_code_str)
         IN  last' = [NoOp EXCEPT
                       !.op = "python-writer-modify-code-state",
                       !.input = python_path_comma_code_str,
                       !.writer_calls = r.writer_calls, !.result = r.result]
    /\ UNCHANGED <<constructed, attrs, embedding_map, index_to_symbol,
                   symbol_to_index, files, mapping_from>>

\* tools[1].func: python-writer-write-to-disk
WriteToDiskTool ==
    /\ last.op = "none"
    /\ last' = [NoOp EXCEPT
                  !.op = "python-writer-write-to-disk",
                  !.writer_calls = <<[fn |-> "write_to_disk", args |-> <<>>]>>]
    /\ UNCHANGED <<constructed, attrs, embedding_map, index_to_symbol,
                   symbol_to_index, files, mapping_from>>

---------------------------------------------------------------------------
(* Control is back at the caller: the record of the call is dropped. *)

Return ==
    /\ last.op # "none"
    /\ last' = NoOp
    /\ UNCHANGED <<constructed, attrs, embedding_map, index_to_symbol,
                   symbol_to_index, files, mapping_from>>

---------------------------------------------------------------------------
(* Specifications.  update_embeddings reads and writes the map alone,       *)
(* generate_similarity_matrix writes the index projections alone and save   *)
(* writes the files alone, so each specification runs the constructor with  *)
(* the operations one group of properties is about.                         *)

NoFiles == [p \in Paths |-> NoFile]

Init ==
    /\ constructed = FALSE
    /\ attrs = {}
    /\ embedding_map = <<>>
    /\ index_to_symbol = <<>>
    /\ symbol_to_index = <<>>
    /\ files = NoFiles
    /\ mapping_from = "nobody"
    /\ last = NoOp

\* Construction and incremental updates.
Next ==
    \/ Construct(CorePool, MaxListLen)
    \/ UpdateEmbeddings(CorePool, MaxListLen)
    \/ Return

Spec == Init /\ [][Next]_vars

\* Build-mode construction over every kind of candidate.
NextFilter ==
    \/ Construct(FilterPool, MaxListLen)
    \/ Return

SpecFilter == Init /\ [][NextFilter]_vars

\* Build-mode construction over longer candidate lists.
NextBuild ==
    \/ Construct(BuildPool, MaxBuildLen)
    \/ Return

SpecBuild == Init /\ [][NextBuild]_vars

\* Construction, single-symbol updates and the similarity matrix.
NextMatrix ==
    \/ Construct(MatrixPool, MaxListLen)
    \/ UpdateEmbeddings(MatrixPool, MaxShortLen)
    \/ GenerateSimilarityMatrix
    \/ Return

SpecMatrix == Init /\ [][NextMatrix]_vars

\* Construction, single-symbol updates and save, on a file system where the
\* path may already hold a file.
InitPersist ==
    /\ constructed = FALSE
    /\ attrs = {}
    /\ embedding_map = <<>>
    /\ index_to_symbol = <<>>
    /\ symbol_to_index = <<>>
    /\ files \in [Paths -> {NoFile, [exists |-> TRUE, content |-> ForeignContent]}]
    /\ mapping_from = "nobody"
    /\ last = NoOp

NextPersist ==
    \/ Construct(LoadPool, MaxShortLen)
    \/ UpdateEmbeddings(LoadPool, MaxShortLen)
    \/ Save
    \/ Return

SpecPersist == InitPersist /\ [][NextPersist]_vars

\* Load mode and the dict it adopts: the instance, a second instance built
\* from the same dict, and the caller.
NextShared ==
    \/ Construct(LoadPool, MaxShortLen)
    \/ UpdateEmbeddings(LoadPool, MaxShortLen)
    \/ UpdateEmbeddingsOfSecond(LoadPool, MaxShortLen)
    \/ CallerWrites(LoadPool)
    \/ Return

SpecShared == Init /\ [][NextShared]_vars

\* Construction, updates of up to MaxListLen symbols and the index projections.
NextIndex ==
    \/ Construct(CorePool, MaxListLen)
    \/ UpdateEmbeddings(CorePool, MaxListLen)
    \/ GenerateSimilarityMatrix
    \/ Return

SpecIndex == Init /\ [][NextIndex]_vars

\* The two tools of the PythonWriterToolBuilder.
NextWriter ==
    \/ ModifyCodeStateTool
    \/ WriteToDiskTool
    \/ Return

SpecWriter == Init /\ [][NextWriter]_vars

\* Save and load, on a file system where the path may hold nothing, a foreign
\* file, a document with a malformed key, or the document of an earlier save.
InitRoundTrip ==
    /\ constructed = FALSE
    /\ attrs = {}
    /\ embedding_map = <<>>
    /\ index_to_symbol = <<>>
    /\ symbol_to_index = <<>>
    /\ files \in [Paths -> {NoFile,
                            [exists |-> TRUE, content |-> ForeignContent],
                            [exists |-> TRUE, content |-> BadKeyContent]}
                           \cup {[exists |-> TRUE, content |-> Encode(d)] :
                                    d \in LoadMaps(LoadPool)}]
    /\ mapping_from = "nobody"
    /\ last = NoOp

NextRoundTrip ==
    \/ Construct(LoadPool, MaxShortLen)
    \/ UpdateEmbeddings(LoadPool, MaxShortLen)
    \/ Save
    \/ Load
    \/ Return

SpecRoundTrip == InitRoundTrip /\ [][NextRoundTrip]_vars

---------------------------------------------------------------------------
(* Properties.  They read the record of the last operation: the argument    *)
(* list, the map before the call and the log of collaborator calls.         *)

Positions == 1..Len(last.symbols)

Calls == 1..Len(last.calls)

\* The calls of collaborator fn made while position k of the list was processed.
CallsOf(fn, k) == {i \in Calls : last.calls[i].fn = fn /\ last.calls[i].pos = k}

\* The get_embedding calls made for symbol s, at any of its positions.
EmbedCallsFor(s) ==
    {i \in Calls : /\ last.calls[i].fn = "get_embedding"
                   /\ last.calls[i].pos \in Positions
                   /\ last.symbols[last.calls[i].pos] = s}

\* The converter resolved position k.
Converted(k) == \E i \in CallsOf("convert", k) : last.calls[i].ok

\* The provider returned a vector at position k.
Embedded(k) == \E i \in CallsOf("get_embedding", k) : last.calls[i].ok

\* The text the converter returned for symbol s in this call.
TextOf(s) ==
    last.calls[CHOOSE i \in Calls :
                 last.calls[i].fn = "convert" /\ last.calls[i].arg = s].text

\* update_embeddings has returned, on an instance that has a map.
AfterUpdate ==
    /\ last.op = "update_embeddings"
    /\ "embedding_map" \in last.pre_attrs

\* Symbol s was in the map before the call with the text the converter returns now.
Unchanged(s) ==
    /\ HasKey(last.pre_map, s)
    /\ \E k \in Positions : last.symbols[k] = s /\ Converted(k)
    /\ DictGet(last.pre_map, s).source_code = TextOf(s)

\* C1: update_embeddings neither calls get_embedding for, nor changes the entry
\* of, a symbol whose stored source_code equals the text the converter returns;
\* nor does it call get_embedding for a second occurrence of a symbol whose
\* first occurrence in the same list has been embedded.
C1_UnchangedSourceIsNoOp ==
    AfterUpdate =>
      \A k \in Positions :
        LET s == last.symbols[k]
        IN  /\ Unchanged(s) =>
                 /\ EmbedCallsFor(s) = {}
                 /\ HasKey(embedding_map, s)
                 /\ DictGet(embedding_map, s) = DictGet(last.pre_map, s)
            /\ \A j \in 1..(k - 1) :
                 (last.symbols[j] = s /\ Embedded(j)) =>
                     CallsOf("get_embedding", k) = {}

\* C1 witness: an update whose list holds an unchanged symbol of the map.
C1_Witness ==
    /\ AfterUpdate
    /\ \E k \in Positions : Unchanged(last.symbols[k])

\* An update whose list holds a symbol twice, the first occurrence embedded.
SecondOccurrenceReached ==
    /\ AfterUpdate
    /\ \E k \in Positions : \E j \in 1..(k - 1) :
         last.symbols[j] = last.symbols[k] /\ Embedded(j)

\* Symbol s was processed without a failure of the converter or of the provider.
Succeeded(s) ==
    /\ \E k \in Positions : last.symbols[k] = s
    /\ \A k \in Positions : last.symbols[k] = s => Converted(k)
    /\ \A i \in EmbedCallsFor(s) : last.calls[i].ok

\* Symbol s was absent before the call, or stored with another text.
NewOrStale(s) ==
    \/ ~HasKey(last.pre_map, s)
    \/ DictGet(last.pre_map, s).source_code # TextOf(s)

\* C2: a successful update of a symbol that is new to the map, or whose stored
\* source_code differs from the converter's text, calls get_embedding exactly
\* once, with the fresh text, and leaves the entry (s, returned vector, fresh text).
C2_NewOrStaleIsEmbedded ==
    AfterUpdate =>
      \A s \in Range(last.symbols) :
        (Succeeded(s) /\ NewOrStale(s)) =>
            /\ Cardinality(EmbedCallsFor(s)) = 1
            /\ \A i \in EmbedCallsFor(s) :
                 /\ last.calls[i].arg = TextOf(s)
                 /\ HasKey(embedding_map, s)
                 /\ DictGet(embedding_map, s) =
                      [symbol |-> s, vector |-> last.calls[i].vector,
                       source_code |-> TextOf(s)]

\* C2 witness: an update that re-embeds a symbol whose source text has changed.
C2_Witness ==
    /\ AfterUpdate
    /\ \E s \in Range(last.symbols) :
         /\ Succeeded(s)
         /\ HasKey(last.pre_map, s)
         /\ DictGet(last.pre_map, s).source_code # TextOf(s)
         /\ DictGet(embedding_map, s).vector # DictGet(last.pre_map, s).vector

\* __init__ has run in build mode with both of its arguments.
AfterBuild ==
    /\ last.op = "init"
    /\ last.build /\ ~last.load
    /\ {"symbol_converter", "all_defined_symbols"} \subseteq last.kwargs

\* The exclusion rule as specified: four substrings of the uri, six kinds.
Dropped(s) ==
    \/ Contains(s, "__init__") \/ Contains(s, "setup")
    \/ Contains(s, "local") \/ Contains(s, "test")
    \/ SymbolKindBySuffix(s) \in
         {"Local", "Value", "Meta", "Macro", "Parameter", "TypeParameter"}

Keeps(s) == ~Dropped(s)

\* The candidates that survive the filter, in the order of the candidate list.
Survivors == SelectSeq(last.symbols, Keeps)

IsConvert(c) == c.fn = "convert"

\* The symbols handed to the converter, in call order.
ConvertedSymbols ==
    LET cs == SelectSeq(last.calls, IsConvert)
    IN  [i \in 1..Len(cs) |-> cs[i].arg]

\* The converter or the provider raised while position k was processed.
FailedAt(k) ==
    \/ \E i \in CallsOf("convert", k) : ~last.calls[i].ok
    \/ \E i \in CallsOf("get_embedding", k) : ~last.calls[i].ok

\* C3: a full build raises nothing, hands every surviving candidate to the
\* converter whatever failed before it, and returns a map whose keys are exactly
\* the survivors for which both the conversion and the embedding succeeded.
C3_BuildSurvivesFailures ==
    AfterBuild =>
      /\ last.raised = "none"
      /\ constructed
      /\ ConvertedSymbols = Survivors
      /\ \A k \in 1..Len(Survivors) :
           /\ Converted(k) => Cardinality(CallsOf("get_embedding", k)) = 1
           /\ FailedAt(k) => \E i \in 1..Len(last.logged) : last.logged[i] = Survivors[k]
      /\ KeySet(embedding_map) =
           {Survivors[k] : k \in {j \in 1..Len(Survivors) : Converted(j) /\ Embedded(j)}}

\* C3 witness: of three surviving candidates the second fails in the provider,
\* the first and the third are in the map.
C3_Witness ==
    /\ AfterBuild
    /\ Len(Survivors) = 3
    /\ Converted(2) /\ FailedAt(2)
    /\ KeySet(embedding_map) = {Survivors[1], Survivors[3]}
    /\ Survivors[2] \notin KeySet(embedding_map)

\* The converter of the call, read back from the log.
ConvFromLog == [s \in Range(last.symbols) |-> TextOf(s)]

\* The positions at which the provider raised.
FailsFromLog ==
    {k \in Positions : \E i \in CallsOf("get_embedding", k) : ~last.calls[i].ok}

RemoveAt(seq, k) == SubSeq(seq, 1, k - 1) \o SubSeq(seq, k + 1, Len(seq))

ShiftDown(set, k) == {IF j > k THEN j - 1 ELSE j : j \in set \ {k}}

\* The map update_embeddings leaves when position k is taken out of the list.
MapWithout(k) ==
    UpdateLoop(LoopStart(last.pre_map), TRUE, RemoveAt(last.symbols, k), 1,
               ConvFromLog, ShiftDown(FailsFromLog, k)).map

\* C4: update_embeddings raises nothing; every position of the list is handed to
\* the converter; a symbol all of whose occurrences fail keeps the entry it had
\* (or stays absent); and the map left is the one left without the failing position.
C4_UpdateSurvivesFailures ==
    AfterUpdate =>
      /\ last.raised = "none"
      /\ ConvertedSymbols = last.symbols
      /\ \A s \in Range(last.symbols) :
           (\A k \in Positions : last.symbols[k] = s => FailedAt(k)) =>
               /\ HasKey(embedding_map, s) <=> HasKey(last.pre_map, s)
               /\ HasKey(last.pre_map, s) =>
                    DictGet(embedding_map, s) = DictGet(last.pre_map, s)
      /\ \A k \in Positions :
           FailedAt(k) =>
               /\ \E i \in 1..Len(last.logged) : last.logged[i] = last.symbols[k]
               /\ embedding_map = MapWithout(k)

\* C4 witness: on a populated map the first symbol of the list fails and keeps
\* its entry, the second one is embedded.
C4_Witness ==
    /\ AfterUpdate
    /\ Len(last.symbols) = 2
    /\ last.symbols[1] # last.symbols[2]
    /\ HasKey(last.pre_map, last.symbols[1])
    /\ FailedAt(1)
    /\ Embedded(2)
    /\ DictGet(embedding_map, last.symbols[1]) = DictGet(last.pre_map, last.symbols[1])
    /\ DictGet(embedding_map, last.symbols[2]).source_code = TextOf(last.symbols[2])

\* C5: after a build every key is a candidate that meets no exclusion condition,
\* and the symbols handed on by _filter_symbols are exactly the candidates that
\* meet none, in the order of the candidate list.
C5_FilterRule ==
    AfterBuild =>
      /\ \A s \in KeySet(embedding_map) :
           /\ s \in Range(last.symbols)
           /\ ~Contains(s, "__init__") /\ ~Contains(s, "setup")
           /\ ~Contains(s, "local") /\ ~Contains(s, "test")
           /\ SymbolKindBySuffix(s) \notin
                {"Local", "Value", "Meta", "Macro", "Parameter", "TypeParameter"}
      /\ ConvertedSymbols = Survivors

\* C5 witness: a candidate of ordinary kind is dropped for the substring "test"
\* while the other candidate is kept and embedded.
C5_Witness ==
    /\ AfterBuild
    /\ \E k \in Positions :
         /\ Contains(last.symbols[k], "test")
         /\ SymbolKindBySuffix(last.symbols[k]) = "Class"
         /\ last.symbols[k] \notin KeySet(embedding_map)
    /\ embedding_map # <<>>

\* C6: after a build no key meets an exclusion condition, but update_embeddings
\* hands every symbol of its list to the converter, and embeds and inserts those
\* the converter and the provider accept, excluded ones too.
C6_UpdateDoesNotFilter ==
    /\ AfterBuild => \A s \in KeySet(embedding_map) : ~Dropped(s)
    /\ AfterUpdate =>
         \A k \in Positions :
           /\ Dropped(last.symbols[k]) => CallsOf("convert", k) # {}
           /\ (Dropped(last.symbols[k]) /\ Converted(k) /\ ~FailedAt(k)) =>
                 /\ HasKey(embedding_map, last.symbols[k])
                 /\ DictGet(embedding_map, last.symbols[k]).source_code
                      = TextOf(last.symbols[k])
                 /\ ~HasKey(last.pre_map, last.symbols[k]) =>
                      \E i \in EmbedCallsFor(last.symbols[k]) : last.calls[i].ok

\* C6 witness: an update has put two symbols that the filter excludes, one for
\* the substring "test" and one of kind Parameter, into a map that held neither.
C6_Witness ==
    /\ AfterUpdate
    /\ \E k \in Positions :
         /\ Contains(last.symbols[k], "test")
         /\ ~HasKey(last.pre_map, last.symbols[k])
         /\ HasKey(embedding_map, last.symbols[k])
    /\ \E k \in Positions :
         /\ SymbolKindBySuffix(last.symbols[k]) = "Parameter"
         /\ ~HasKey(last.pre_map, last.symbols[k])
         /\ HasKey(embedding_map, last.symbols[k])

\* generate_similarity_matrix has returned a matrix.
AfterGenerate ==
    /\ last.op = "generate_similarity_matrix"
    /\ last.raised = "none"

\* The number of entries of the map, and the row / column indices.
N == Len(embedding_map)

Indices == 0..(N - 1)

\* The vector stored at position i of the map's iteration order.
VectorAt(i) == embedding_map[i + 1].value.vector

\* C7: the matrix returned for a map of n entries is n by n, zero on the
\* diagonal, and symmetric.
C7_SquareSymmetricZeroDiagonal ==
    AfterGenerate =>
      /\ DOMAIN last.matrix = Indices
      /\ \A i \in Indices :
           /\ DOMAIN last.matrix[i] = Indices
           /\ last.matrix[i][i] = Zero
      /\ \A i, j \in Indices : i # j => last.matrix[i][j] = last.matrix[j][i]

\* C7 witness: a matrix over four entries with a non-zero similarity.
C7_Witness ==
    /\ AfterGenerate
    /\ N = 4
    /\ \E i, j \in Indices : i # j /\ last.matrix[i][j] # Zero

\* The similarity calls made for the index pair (i, j).
SimCallsFor(i, j) ==
    {c \in 1..Len(last.sim_calls) : last.sim_calls[c].i = i /\ last.sim_calls[c].j = j}

\* C8: one call of the similarity function per pair i < j, on (vector i,
\* vector j), none for i >= j; M[i][j] is the value of that call and M[j][i] a
\* copy of it; n(n-1)/2 calls in all, in every call of generate_similarity_matrix.
C8_UpperTriangleOnly ==
    AfterGenerate =>
      /\ \A i, j \in Indices :
           IF i < j
           THEN /\ Cardinality(SimCallsFor(i, j)) = 1
                /\ \A c \in SimCallsFor(i, j) :
                     /\ last.sim_calls[c].a = VectorAt(i)
                     /\ last.sim_calls[c].b = VectorAt(j)
                     /\ last.matrix[i][j] =
                          CosineSimilarity(last.sim_calls[c].a, last.sim_calls[c].b)
                /\ last.matrix[j][i] = last.matrix[i][j]
           ELSE SimCallsFor(i, j) = {}
      /\ 2 * Len(last.sim_calls) = N * (N - 1)

\* C8 witness: a second matrix over three entries, computed with three calls
\* after an earlier matrix had been generated.
C8_Witness ==
    /\ AfterGenerate
    /\ "index_to_symbol" \in last.pre_attrs
    /\ N = 3
    /\ Len(last.sim_calls) = 3

\* C9: after generate_similarity_matrix the two index projections are inverse
\* bijections between 0..n-1 and the keys, index i is the i-th key in iteration
\* order, and cell (i, j) comes from the vectors stored for the symbols at i and j.
C9_IndexProjections ==
    AfterGenerate =>
      /\ DOMAIN index_to_symbol = Indices
      /\ DOMAIN symbol_to_index = KeySet(embedding_map)
      /\ \A i \in Indices :
           /\ index_to_symbol[i] = embedding_map[i + 1].key
           /\ symbol_to_index[index_to_symbol[i]] = i
      /\ \A s \in KeySet(embedding_map) :
           /\ symbol_to_index[s] \in Indices
           /\ index_to_symbol[symbol_to_index[s]] = s
      /\ \A i, j \in Indices :
           i < j =>
             /\ last.matrix[i][j] =
                  CosineSimilarity(DictGet(embedding_map, index_to_symbol[i]).vector,
                                   DictGet(embedding_map, index_to_symbol[j]).vector)
             /\ last.matrix[j][i] = last.matrix[i][j]

\* C9 witness: the projections of a map of three entries with two distinct
\* vectors, after an update had appended a key to an indexed map.
C9_Witness ==
    /\ AfterGenerate
    /\ N = 3
    /\ "symbol_to_index" \in last.pre_attrs
    /\ symbol_to_index[embedding_map[3].key] = 2
    /\ VectorAt(0) # VectorAt(2)

\* C10: save on a path that holds a file raises and leaves the file as it was.
C10_SaveNeverOverwrites ==
    (last.op = "save" /\ last.pre_file.exists) =>
        /\ last.raised = "ValueError: file exists"
        /\ files[last.path] = last.pre_file

\* C10 witness: a second save to the path of an earlier save, after the map
\* has changed, has failed and left the first document.
C10_Witness ==
    /\ last.op = "save"
    /\ last.pre_file.exists
    /\ last.pre_file.content.kind = "json"
    /\ "embedding_map" \in attrs
    /\ last.pre_file.content # Encode(embedding_map)
    /\ files[last.path].content = last.pre_file.content

\* The (symbol, vector, source_code) triples of a map.
Triples(d) == {d[i].value : i \in 1..Len(d)}

\* load has returned after finding no file at the path.
AfterLoadOfMissing ==
    /\ last.op = "load"
    /\ ~last.pre_file.exists

\* C11: load on a path that holds no file raises, leaves the path without a
\* file, returns no instance and hands nothing to the decoder; the instance the
\* caller may already hold is as it was.
C11_LoadOfMissingFileFails ==
    AfterLoadOfMissing =>
        /\ last.raised = "ValueError: no file"
        /\ ~files[last.path].exists
        /\ files[last.path] = last.pre_file
        /\ ~last.returned.instance
        /\ ~last.decoded
        /\ attrs = last.pre_attrs
        /\ embedding_map = last.pre_map

\* C11 witness: load on a free path, called by a program that holds a
\* populated instance, has failed.
C11_Witness ==
    /\ AfterLoadOfMissing
    /\ last.raised # "none"
    /\ constructed
    /\ embedding_map # <<>>

\* load has returned from a path whose file is the saved form of the map of
\* the instance that the program holds.
AfterLoadOfSaved ==
    /\ last.op = "load"
    /\ "embedding_map" \in last.pre_attrs
    /\ last.pre_file.exists
    /\ last.pre_file.content = Encode(last.pre_map)

\* C12: a successful save writes the document of the map and leaves the map as
\* it was; loading that document returns an instance whose map has the triples
\* of the saved map, one entry per triple, each key being Symbol.from_string of
\* the key string of the document and the symbol of its value.
C12_SaveLoadRoundTrip ==
    /\ (last.op = "save" /\ last.raised = "none") =>
          /\ embedding_map = last.pre_map
          /\ files[last.path].exists
          /\ Len(files[last.path].content.doc) = Len(embedding_map)
          /\ \A i \in 1..Len(embedding_map) :
                /\ files[last.path].content.doc[i].key
                     = SymbolToString(embedding_map[i].key)
                /\ files[last.path].content.doc[i].value.vector
                     = embedding_map[i].value.vector
                /\ files[last.path].content.doc[i].value.source_code
                     = embedding_map[i].value.source_code
    /\ AfterLoadOfSaved =>
          /\ last.raised = "none"
          /\ last.returned.instance
          /\ Triples(last.returned.map) = Triples(last.pre_map)
          /\ Len(last.returned.map) = Len(last.pre_map)
          /\ \A i \in 1..Len(last.returned.map) :
                /\ last.returned.map[i].key
                     = SymbolFromString(last.pre_file.content.doc[i].key)
                /\ last.returned.map[i].key = last.returned.map[i].value.symbol
          /\ embedding_map = last.pre_map

\* C12 witness: the document of a map of two entries, saved by the instance,
\* has been loaded into an instance with the same two entries.
C12_Witness ==
    /\ AfterLoadOfSaved
    /\ Len(last.pre_map) = 2
    /\ last.returned.instance
    /\ last.returned.map = last.pre_map

\* __init__ has returned or raised.
AfterInit == last.op = "init"

\* C13: with both flags set __init__ raises the configuration error whatever
\* keywords are supplied, before any candidate is filtered, converted or
\* embedded: no collaborator is called, no mapping is set, no instance exists.
C13_BothModesIsConfigurationError ==
    (AfterInit /\ last.build /\ last.load) =>
        /\ last.raised = "ValueError: Cannot specify both"
        /\ ~constructed
        /\ last.calls = <<>>
        /\ last.logged = <<>>
        /\ "embedding_map" \notin attrs
        /\ embedding_map = <<>>
        /\ mapping_from = "nobody"

\* C13 witness: both flags, every keyword, and a candidate list whose symbols
\* the filter keeps: the error is raised all the same.
C13_Witness ==
    /\ AfterInit /\ last.build /\ last.load
    /\ last.kwargs = KwargNames
    /\ Len(Survivors) = 2
    /\ last.raised = "ValueError: Cannot specify both"

\* The keywords the mode of the call requires.
Required ==
    IF last.build /\ ~last.load THEN {"symbol_converter", "all_defined_symbols"}
    ELSE IF last.load /\ ~last.build THEN {"embedding_map"}
    ELSE {}

Missing == Required \ last.kwargs

MissingArgumentErrors == {"ValueError: Missing required argument: " \o a : a \in KwargNames}

\* C14: when a keyword the mode requires is missing, __init__ raises the
\* missing-argument error naming a keyword that is missing, and no instance
\* exists; that error is raised in no other case, in particular not when the
\* converter or the provider fails inside the build.
C14_MissingArgumentError ==
    AfterInit =>
        /\ Missing # {} =>
              /\ \E a \in Missing :
                    last.raised = "ValueError: Missing required argument: " \o a
              /\ ~constructed
              /\ last.calls = <<>>
        /\ last.raised \in MissingArgumentErrors => Missing # {}
        /\ (AfterBuild /\ last.logged # <<>>) => last.raised = "none"

\* C14 witness: build mode with the converter and an unrelated keyword, but no
\* candidate list, has raised the error naming all_defined_symbols.
C14_Witness ==
    /\ AfterInit
    /\ last.build /\ ~last.load
    /\ last.kwargs = {"symbol_converter", "embedding_map"}
    /\ last.raised = "ValueError: Missing required argument: all_defined_symbols"

\* A build in which a symbol failed has raised no error.
BuildFailureReached ==
    /\ AfterBuild
    /\ last.logged # <<>>
    /\ last.raised = "none"

\* update_embeddings has returned, on an instance constructed with neither mode.
AfterUpdateWithoutMap ==
    /\ last.op = "update_embeddings"
    /\ "embedding_map" \notin last.pre_attrs

\* C15: an instance constructed with neither mode has no mapping, and an
\* update_embeddings on it leaves a mapping with an entry for every symbol of
\* the list that the converter resolves and the provider does not refuse.
C15_UpdatePopulatesUninitialised ==
    /\ (AfterInit /\ ~last.build /\ ~last.load) =>
          (constructed /\ "embedding_map" \notin attrs)
    /\ AfterUpdateWithoutMap =>
          \A k \in Positions :
            (Converted(k) /\ ~FailedAt(k)) =>
                /\ "embedding_map" \in attrs
                /\ HasKey(embedding_map, last.symbols[k])

\* The update of an instance without a mapping has handed a symbol to the
\* converter, which resolved it, and has logged a failure for it.
UpdateWithoutMapReached ==
    /\ AfterUpdateWithoutMap
    /\ \E k \in Positions : Converted(k) /\ ~FailedAt(k)
    /\ last.logged # <<>>
    /\ "embedding_map" \notin attrs

\* The operations invoked on the instance itself.
OwnOperations == {"init", "update_embeddings", "load"}

\* C16: the contents of the instance's map change only in a step of an
\* operation invoked on that instance, also when the map was supplied by the
\* caller in load mode.
C16_ExclusiveOwnership ==
    [][embedding_map' # embedding_map => last'.op \in OwnOperations]_vars

\* An update of a second instance has changed the map of this one.
SecondInstanceChangedMap ==
    /\ last.op = "second.update_embeddings"
    /\ embedding_map # last.pre_map

\* The modify-code-state tool has returned.
AfterModifyTool == last.op = "python-writer-modify-code-state"

CommaPositions == {i \in 1..Len(last.input) : SubSeq(last.input, i, i) = ","}

\* The first comma of the input.
FirstComma == CHOOSE i \in CommaPositions : \A j \in CommaPositions : i <= j

\* The input after its first comma.
Remainder == SubSeq(last.input, FirstComma + 1, Len(last.input))

IsWhitespace(s) ==
    \A i \in 1..Len(s) : SubSeq(s, i, i) = " " \/ SubSeq(s, i, i) = "\n"

\* code is t without the whitespace at its two ends.
IsStripped(code, t) ==
    \E a \in 0..Len(t) : \E b \in a..Len(t) :
        /\ code = SubSeq(t, a + 1, b)
        /\ IsWhitespace(SubSeq(t, 1, a))
        /\ IsWhitespace(SubSeq(t, b + 1, Len(t)))
        /\ Len(code) > 0 =>
              /\ ~IsWhitespace(SubSeq(code, 1, 1))
              /\ ~IsWhitespace(SubSeq(code, Len(code), Len(code)))

\* C17: the modify-code-state tool calls modify_code_state once, with the text
\* before the first comma of the input (the whole input when it has none) and
\* the text after that comma without the whitespace at its ends, commas in it
\* kept, and returns "Success"; the write-to-disk tool calls write_to_disk
\* once and nothing else.
C17_WrapperSplitsAtFirstComma ==
    /\ AfterModifyTool =>
          /\ Len(last.writer_calls) = 1
          /\ last.writer_calls[1].fn = "modify_code_state"
          /\ last.result = "Success"
          /\ IF CommaPositions = {}
             THEN last.writer_calls[1].args = <<last.input, "">>
             ELSE /\ last.writer_calls[1].args[1] = SubSeq(last.input, 1, FirstComma - 1)
                  /\ IsStripped(last.writer_calls[1].args[2], Remainder)
    /\ last.op = "python-writer-write-to-disk" =>
          /\ Len(last.writer_calls) = 1
          /\ last.writer_calls[1].fn = "write_to_disk"

\* C17 witness: an input with two commas and whitespace after the first: the
\* code handed on starts after the whitespace and keeps the second comma.
C17_Witness ==
    /\ AfterModifyTool
    /\ Cardinality(CommaPositions) = 2
    /\ Len(last.writer_calls[1].args[2]) < Len(Remainder)
    /\ Find(last.writer_calls[1].args[2], ",", 1) > 0

\* The get_embedding calls of a build made for symbol s: the positions of the
\* call log of a build are those of the filtered list.
BuildEmbedCallsFor(s) ==
    {i \in Calls : /\ last.calls[i].fn = "get_embedding"
                   /\ Survivors[last.calls[i].pos] = s}

\* The converter and the failing positions of the build, read back from the log.
BuildConvFromLog == [s \in Range(Survivors) |-> TextOf(s)]

BuildFailsFromLog ==
    {k \in 1..Len(Survivors) : \E i \in CallsOf("get_embedding", k) : ~last.calls[i].ok}

\* update_embeddings run with the filtered candidates on an empty map.
UpdateOfSurvivors ==
    UpdateLoop(LoopStart(<<>>), TRUE, Survivors, 1, BuildConvFromLog, BuildFailsFromLog)

\* C18: in a build a vector is requested for a surviving candidate only if the
\* symbol is not yet in the map being built or is stored with another text, so
\* a candidate listed twice and embedded at its first occurrence causes one
\* get_embedding call; the build leaves the map and makes the calls that
\* update_embeddings leaves and makes with the filtered list on an empty map.
C18_BuildSharesUpdateLogic ==
    AfterBuild =>
        /\ \A k \in 1..Len(Survivors) : \A j \in 1..(k - 1) :
              (Survivors[j] = Survivors[k] /\ Embedded(j)) =>
                  /\ CallsOf("get_embedding", k) = {}
                  /\ Cardinality(BuildEmbedCallsFor(Survivors[k])) = 1
        /\ embedding_map = UpdateOfSurvivors.map
        /\ last.calls = UpdateOfSurvivors.calls

\* The build has embedded both occurrences of a candidate listed twice.
DuplicateEmbeddedTwice ==
    /\ AfterBuild
    /\ \E s \in Range(Survivors) :
         Cardinality({i \in BuildEmbedCallsFor(s) : last.calls[i].ok}) = 2

\* The positions of the update list at which symbol s was embedded.
EmbeddedPositions(s) == {k \in Positions : last.symbols[k] = s /\ Embedded(k)}

\* The position at which a symbol new to the map was inserted.
InsertedAt(s) == CHOOSE k \in EmbeddedPositions(s) : \A j \in EmbeddedPositions(s) : k <= j

\* update_embeddings removes no key and moves none; the keys it adds follow
\* the old ones, in the order in which the list had them embedded.
UpdateKeepsOrder ==
    AfterUpdate =>
        /\ Len(embedding_map) >= Len(last.pre_map)
        /\ \A i \in 1..Len(last.pre_map) : embedding_map[i].key = last.pre_map[i].key
        /\ \A i \in (Len(last.pre_map) + 1)..Len(embedding_map) :
              /\ EmbeddedPositions(embedding_map[i].key) # {}
              /\ \A j \in (i + 1)..Len(embedding_map) :
                    InsertedAt(embedding_map[i].key) < InsertedAt(embedding_map[j].key)

\* A generate_similarity_matrix step gives every symbol that the projections
\* of the call before it indexed the index it had.
GenerateKeepsIndices ==
    (/\ last'.op = "generate_similarity_matrix"
     /\ last'.raised = "none"
     /\ "symbol_to_index" \in attrs) =>
        \A s \in DOMAIN symbol_to_index :
            /\ s \in DOMAIN symbol_to_index'
            /\ symbol_to_index'[s] = symbol_to_index[s]
            /\ index_to_symbol'[symbol_to_index[s]] = s

\* C19: no update_embeddings removes or moves a key, new keys are appended in
\* update-list order, and whatever updates were made since, a call of
\* generate_similarity_matrix indexes every symbol of the call before it as
\* that call did.
C19_IndexStableAcrossUpdates ==
    [][UpdateKeepsOrder' /\ GenerateKeepsIndices]_vars

\* C19 witness: after the map was indexed, an update of two symbols has
\* re-embedded an indexed symbol and appended a new one; the indexed symbols
\* are where the projections have them.
C19_Witness ==
    /\ AfterUpdate
    /\ "symbol_to_index" \in attrs
    /\ Len(last.symbols) = 2
    /\ \E i \in 1..Len(last.pre_map) :
         /\ embedding_map[i].value # last.pre_map[i].value
         /\ embedding_map[i].key \in DOMAIN symbol_to_index
    /\ Len(embedding_map) = Len(last.pre_map) + 1
    /\ Len(last.pre_map) >= 2
    /\ \A s \in DOMAIN symbol_to_index : embedding_map[symbol_to_index[s] + 1].key = s

\* The successful get_embedding calls of the last operation that were made
\* for the symbol at position k of the list given by symbols.
ReturnedFor(symbols, e) ==
    {i \in Calls : /\ last.calls[i].fn = "get_embedding"
                   /\ last.calls[i].ok
                   /\ symbols[last.calls[i].pos] = e.key
                   /\ last.calls[i].arg = e.value.source_code
                   /\ last.calls[i].vector = e.value.vector}

\* C20: in a map created by a build and changed by updates since, with or
\* without failures, every entry has its key as its symbol and, as its vector,
\* the provider's value for the text stored with it; an entry written by the
\* last operation holds the text and the vector of one successful
\* get_embedding call made for its symbol.
C20_EntriesSelfConsistent ==
    mapping_from = "build" =>
        /\ \A i \in 1..Len(embedding_map) :
              /\ embedding_map[i].value.symbol = embedding_map[i].key
              /\ embedding_map[i].value.vector = Embed(embedding_map[i].value.source_code)
        /\ AfterBuild =>
              \A i \in 1..Len(embedding_map) :
                  ReturnedFor(Survivors, embedding_map[i]) # {}
        /\ AfterUpdate =>
              \A i \in 1..Len(embedding_map) :
                  (\/ ~HasKey(last.pre_map, embedding_map[i].key)
                   \/ DictGet(last.pre_map, embedding_map[i].key) # embedding_map[i].value)
                      => ReturnedFor(last.symbols, embedding_map[i]) # {}

\* C20 witness: on a built map an update of two stale symbols has failed in
\* the provider for the first, which keeps its old text and vector, and has
\* re-embedded the second.
C20_Witness ==
    /\ mapping_from = "build"
    /\ AfterUpdate
    /\ Len(last.symbols) = 2
    /\ last.symbols[1] # last.symbols[2]
    /\ \A k \in Positions :
         /\ HasKey(last.pre_map, last.symbols[k])
         /\ Converted(k)
         /\ DictGet(last.pre_map, last.symbols[k]).source_code # TextOf(last.symbols[k])
    /\ FailedAt(1)
    /\ DictGet(embedding_map, last.symbols[1]) = DictGet(last.pre_map, last.symbols[1])
    /\ Embedded(2)
    /\ DictGet(embedding_map, last.symbols[2]).vector
         # DictGet(last.pre_map, last.symbols[2]).vector

\* save has returned or raised.
AfterSave == last.op = "save"

\* C21: a save that raises leaves no file at a path that was free, on any
\* instance, one without a mapping included; and a file that a save leaves at
\* a path that was free holds the whole document of the map, which load reads
\* back without an error.
C21_SaveIsAllOrNothing ==
    AfterSave =>
        /\ last.raised # "none" =>
              (files[last.path].exists => last.pre_file.exists)
        /\ (~last.pre_file.exists /\ files[last.path].exists) =>
              /\ "embedding_map" \in last.pre_attrs
              /\ files[last.path].content = Encode(last.pre_map)
              /\ LoadResult(files[last.path]).raised = "none"

\* A save on an instance without a mapping has raised and left an empty file
\* at a path that was free.
SaveLeftEmptyFile ==
    /\ AfterSave
    /\ last.raised = "AttributeError"
    /\ ~last.pre_file.exists
    /\ files[last.path].exists
    /\ files[last.path].content = EmptyContent

\* load has failed in the decoder on the empty file that a save left.
LoadOfEmptyFileFailed ==
    /\ last.op = "load"
    /\ last.pre_file.exists
    /\ last.pre_file.content = EmptyContent
    /\ last.decoded
    /\ last.raised = "DecodeError"

====
